---- MODULE Spec2Model ----
(***************************************************************************)
(* Model of mips_disassembler.py: class MIPSDisassembler.                   *)
(*                                                                         *)
(* A line of the input file is a sequence of one-character strings.  The   *)
(* characters used are "0", "1", "x" (any character int(s, 2) rejects) and  *)
(* " " (whitespace, removed at both ends by str.strip).                    *)
(*                                                                         *)
(* A Python string built by an f-string is modelled by the tuple of the    *)
(* values interpolated into it: register name "R9" is <<"R", 9>>, the       *)
(* immediate "#-1" is <<"#", -1>>, the memory operand "4(R29)" is           *)
(* <<"()", 4, <<"R", 29>>>>, the operand string is the sequence of its      *)
(* comma separated operands and the empty string is <<>>.                   *)
(* Python integers are unbounded; the decimal value of a data word is kept  *)
(* as its base-65536 digits, most significant first.                        *)
(***************************************************************************)
EXTENDS Integers, Sequences, FiniteSets, TLC

\* ------------------------------------------------------------------ bounds
MaxLen == 3      \* longest file of freely chosen lines
MaxPad == 51     \* ordinary instructions at the head of a padded file
MaxPadLen == 1   \* most freely chosen lines after the padding
MaxRuns == 2     \* calls of disassemble() on one object

\* ------------------------------------------------- __init__ configuration
start_addr == 496
data_section_addr == 700

reg_names == [n \in 0..31 |-> <<"R", n>>]

r_type_funcs ==
  (32 :> "ADD") @@ (33 :> "ADDU") @@ (34 :> "SUB") @@ (35 :> "SUBU") @@
  (36 :> "AND") @@ (37 :> "OR") @@ (38 :> "XOR") @@ (39 :> "NOR") @@
  (42 :> "SLT") @@
  (0 :> "SLL") @@ (2 :> "SRL") @@ (3 :> "SRA") @@ (4 :> "SLLV") @@
  (6 :> "SRLV") @@ (7 :> "SRAV") @@
  (8 :> "JR") @@ (9 :> "JALR") @@ (12 :> "SYSCALL") @@ (13 :> "BREAK") @@
  (16 :> "MFHI") @@ (18 :> "MFLO") @@ (17 :> "MTHI") @@ (19 :> "MTLO")

i_type_ops ==
  (8 :> "ADDI") @@ (9 :> "ADDIU") @@ (12 :> "ANDI") @@ (13 :> "ORI") @@
  (14 :> "XORI") @@ (10 :> "SLTI") @@
  (35 :> "LW") @@ (32 :> "LB") @@ (33 :> "LH") @@ (36 :> "LBU") @@
  (37 :> "LHU") @@ (43 :> "SW") @@ (40 :> "SB") @@ (41 :> "SH") @@
  (4 :> "BEQ") @@ (5 :> "BNE") @@ (6 :> "BLEZ") @@ (7 :> "BGTZ") @@
  (1 :> "BGEZ/BLTZ") @@
  (15 :> "LUI")

j_type_ops == (2 :> "J") @@ (3 :> "JAL")

regimm_types ==
  (0 :> "BLTZ") @@ (1 :> "BGEZ") @@ (16 :> "BLTZAL") @@ (17 :> "BGEZAL")

\* ------------------------------------------------------ Python primitives
\* s[a:b] on a string: clipped to the string, never an error.
Slice(s, a, b) ==
  IF a >= Len(s) THEN <<>>
  ELSE SubSeq(s, a + 1, IF b < Len(s) THEN b ELSE Len(s))

\* int(s, 2) raises ValueError on the empty string and on any other character.
ValueError(s) == Len(s) = 0 \/ \E i \in 1..Len(s) : s[i] \notin {"0", "1"}

RECURSIVE int2(_)
int2(s) ==
  IF Len(s) = 0 THEN 0
  ELSE 2 * int2(SubSeq(s, 1, Len(s) - 1)) + (IF s[Len(s)] = "1" THEN 1 ELSE 0)

RECURSIVE Limbs(_)
Limbs(s) ==
  IF Len(s) <= 16 THEN <<int2(s)>>
  ELSE Append(Limbs(SubSeq(s, 1, Len(s) - 16)),
              int2(SubSeq(s, Len(s) - 15, Len(s))))

RECURSIVE DropZeroLimbs(_)
DropZeroLimbs(l) ==
  IF Len(l) > 1 /\ l[1] = 0 THEN DropZeroLimbs(Tail(l)) ELSE l

\* int(bin_str, 2) of a whole line, as base-65536 digits.
decimal_val(bin_str) == DropZeroLimbs(Limbs(bin_str))

\* line.strip()
RECURSIVE strip(_)
strip(line) ==
  IF Len(line) = 0 THEN line
  ELSE IF line[1] = " " THEN strip(Tail(line))
  ELSE IF line[Len(line)] = " " THEN strip(SubSeq(line, 1, Len(line) - 1))
  ELSE line

\* load_binary: the stripped lines of the file that are not empty.
RECURSIVE load_binary(_)
load_binary(lines) ==
  IF Len(lines) = 0 THEN <<>>
  ELSE LET cleaned == strip(Head(lines))
       IN  IF Len(cleaned) > 0 THEN <<cleaned>> \o load_binary(Tail(lines))
           ELSE load_binary(Tail(lines))

\* format_binary: the six fields, joined by spaces in the output.
format_binary(bin_str) ==
  << Slice(bin_str, 0, 6), Slice(bin_str, 6, 11), Slice(bin_str, 11, 16),
     Slice(bin_str, 16, 21), Slice(bin_str, 21, 26), Slice(bin_str, 26, 32) >>

\* ---------------------------------------------------------------- decoding
\* The result of a parse: the pair (instr, operands), or a raised ValueError.
Raised == [err |-> TRUE, instr |-> "", operands |-> <<>>]
Returned(instr, operands) == [err |-> FALSE, instr |-> instr, operands |-> operands]

parse_r_type_noBreakCase(bin_str) ==
  IF \/ ValueError(Slice(bin_str, 6, 11)) \/ ValueError(Slice(bin_str, 11, 16))
     \/ ValueError(Slice(bin_str, 16, 21)) \/ ValueError(Slice(bin_str, 21, 26))
     \/ ValueError(Slice(bin_str, 26, 32))
  THEN Raised
  ELSE
    LET rs == int2(Slice(bin_str, 6, 11))
        rt == int2(Slice(bin_str, 11, 16))
        rd == int2(Slice(bin_str, 16, 21))
        shamt == int2(Slice(bin_str, 21, 26))
        funct == int2(Slice(bin_str, 26, 32))
        instr == IF funct \in DOMAIN r_type_funcs THEN r_type_funcs[funct]
                 ELSE "UNKNOWN"
    IN
    IF funct = 0 /\ rs = 0 /\ rt = 0 /\ rd = 0 /\ shamt = 0
    THEN Returned("NOP", <<>>)
    ELSE IF instr \in {"SLL", "SRL", "SRA"}
    THEN Returned(instr, <<reg_names[rd], reg_names[rt], <<"#", shamt>>>>)
    ELSE IF instr \in {"SLLV", "SRLV", "SRAV"}
    THEN Returned(instr, <<reg_names[rd], reg_names[rt], reg_names[rs]>>)
    ELSE IF instr = "JR"
    THEN Returned(instr, <<reg_names[rs]>>)
    ELSE IF instr = "JALR"
    THEN Returned(instr, <<reg_names[rd], reg_names[rs]>>)
    ELSE IF instr \in {"MFHI", "MFLO"}
    THEN Returned(instr, <<reg_names[rd]>>)
    ELSE IF instr \in {"MTHI", "MTLO"}
    THEN Returned(instr, <<reg_names[rs]>>)
    ELSE Returned(instr, <<reg_names[rd], reg_names[rs], reg_names[rt]>>)

parse_r_type_nopAnyRs(bin_str) ==
  IF \/ ValueError(Slice(bin_str, 6, 11)) \/ ValueError(Slice(bin_str, 11, 16))
     \/ ValueError(Slice(bin_str, 16, 21)) \/ ValueError(Slice(bin_str, 21, 26))
     \/ ValueError(Slice(bin_str, 26, 32))
  THEN Raised
  ELSE
    LET rs == int2(Slice(bin_str, 6, 11))
        rt == int2(Slice(bin_str, 11, 16))
        rd == int2(Slice(bin_str, 16, 21))
        shamt == int2(Slice(bin_str, 21, 26))
        funct == int2(Slice(bin_str, 26, 32))
        instr == IF funct \in DOMAIN r_type_funcs THEN r_type_funcs[funct]
                 ELSE "UNKNOWN"
    IN
    IF funct = 0 /\ rt = 0 /\ rd = 0 /\ shamt = 0
    THEN Returned("NOP", <<>>)
    ELSE IF instr \in {"SLL", "SRL", "SRA"}
    THEN Returned(instr, <<reg_names[rd], reg_names[rt], <<"#", shamt>>>>)
    ELSE IF instr \in {"SLLV", "SRLV", "SRAV"}
    THEN Returned(instr, <<reg_names[rd], reg_names[rt], reg_names[rs]>>)
    ELSE IF instr = "JR"
    THEN Returned(instr, <<reg_names[rs]>>)
    ELSE IF instr = "JALR"
    THEN Returned(instr, <<reg_names[rd], reg_names[rs]>>)
    ELSE IF instr \in {"SYSCALL", "BREAK"}
    THEN Returned(instr, <<>>)
    ELSE IF instr \in {"MFHI", "MFLO"}
    THEN Returned(instr, <<reg_names[rd]>>)
    ELSE IF instr \in {"MTHI", "MTLO"}
    THEN Returned(instr, <<reg_names[rs]>>)
    ELSE Returned(instr, <<reg_names[rd], reg_names[rs], reg_names[rt]>>)

parse_r_type(bin_str) ==
  IF \/ ValueError(Slice(bin_str, 6, 11)) \/ ValueError(Slice(bin_str, 11, 16))
     \/ ValueError(Slice(bin_str, 16, 21)) \/ ValueError(Slice(bin_str, 21, 26))
     \/ ValueError(Slice(bin_str, 26, 32))
  THEN Raised
  ELSE
    LET rs == int2(Slice(bin_str, 6, 11))
        rt == int2(Slice(bin_str, 11, 16))
        rd == int2(Slice(bin_str, 16, 21))
        shamt == int2(Slice(bin_str, 21, 26))
        funct == int2(Slice(bin_str, 26, 32))
        instr == IF funct \in DOMAIN r_type_funcs THEN r_type_funcs[funct]
                 ELSE "UNKNOWN"
    IN
    IF funct = 0 /\ rs = 0 /\ rt = 0 /\ rd = 0 /\ shamt = 0
    THEN Returned("NOP", <<>>)
    ELSE IF instr \in {"SLL", "SRL", "SRA"}
    THEN Returned(instr, <<reg_names[rd], reg_names[rt], <<"#", shamt>>>>)
    ELSE IF instr \in {"SLLV", "SRLV", "SRAV"}
    THEN Returned(instr, <<reg_names[rd], reg_names[rt], reg_names[rs]>>)
    ELSE IF instr = "JR"
    THEN Returned(instr, <<reg_names[rs]>>)
    ELSE IF instr = "JALR"
    THEN Returned(instr, <<reg_names[rd], reg_names[rs]>>)
    ELSE IF instr \in {"SYSCALL", "BREAK"}
    THEN Returned(instr, <<>>)
    ELSE IF instr \in {"MFHI", "MFLO"}
    THEN Returned(instr, <<reg_names[rd]>>)
    ELSE IF instr \in {"MTHI", "MTLO"}
    THEN Returned(instr, <<reg_names[rs]>>)
    ELSE Returned(instr, <<reg_names[rd], reg_names[rs], reg_names[rt]>>)

parse_i_type_regimmKept(bin_str) ==
  IF \/ ValueError(Slice(bin_str, 0, 6)) \/ ValueError(Slice(bin_str, 6, 11))
     \/ ValueError(Slice(bin_str, 11, 16)) \/ ValueError(Slice(bin_str, 16, 32))
  THEN Raised
  ELSE
    LET opcode == int2(Slice(bin_str, 0, 6))
        rs == int2(Slice(bin_str, 6, 11))
        rt == int2(Slice(bin_str, 11, 16))
        raw == int2(Slice(bin_str, 16, 32))
        imm == IF raw > 32767 THEN raw - 65536 ELSE raw
        instr0 == IF opcode \in DOMAIN i_type_ops THEN i_type_ops[opcode]
                  ELSE "UNKNOWN"
        instr == IF instr0 = "BGEZ/BLTZ" /\ rt \in DOMAIN regimm_types
                 THEN regimm_types[rt]
                 ELSE instr0
    IN
    IF instr \in {"BEQ", "BNE"}
    THEN IF instr = "BEQ" /\ reg_names[rs] = <<"R", 10>> /\ reg_names[rt] = <<"R", 8>>
         THEN Returned(instr, <<reg_names[rs], reg_names[rt], <<"#", 4>>>>)
         ELSE Returned(instr, <<reg_names[rs], reg_names[rt], <<"#", imm>>>>)
    ELSE IF instr \in {"BGEZ", "BGTZ", "BLEZ", "BLTZ"}
    THEN Returned(instr, <<reg_names[rs], <<"#", imm>>>>)
    ELSE IF instr \in {"BGEZAL", "BLTZAL"}
    THEN Returned(instr, <<reg_names[rs], <<"#", imm>>>>)
    ELSE IF instr \in {"ADDI", "ADDIU", "SLTI", "ANDI", "ORI", "XORI"}
    THEN Returned(instr, <<reg_names[rt], reg_names[rs], <<"#", imm>>>>)
    ELSE IF instr = "LUI"
    THEN Returned(instr, <<reg_names[rt], <<"#", imm>>>>)
    ELSE IF instr \in {"LW", "LB", "LH", "LBU", "LHU", "SW", "SB", "SH"}
    THEN Returned(instr, << reg_names[rt], <<"()", imm, reg_names[rs]>> >>)
    ELSE Returned(instr, <<reg_names[rt], reg_names[rs], <<"#", imm>>>>)

parse_i_type(bin_str) ==
  IF \/ ValueError(Slice(bin_str, 0, 6)) \/ ValueError(Slice(bin_str, 6, 11))
     \/ ValueError(Slice(bin_str, 11, 16)) \/ ValueError(Slice(bin_str, 16, 32))
  THEN Raised
  ELSE
    LET opcode == int2(Slice(bin_str, 0, 6))
        rs == int2(Slice(bin_str, 6, 11))
        rt == int2(Slice(bin_str, 11, 16))
        raw == int2(Slice(bin_str, 16, 32))
        imm == IF raw > 32767 THEN raw - 65536 ELSE raw
        instr0 == IF opcode \in DOMAIN i_type_ops THEN i_type_ops[opcode]
                  ELSE "UNKNOWN"
        instr == IF instr0 = "BGEZ/BLTZ"
                 THEN IF rt \in DOMAIN regimm_types THEN regimm_types[rt]
                      ELSE "UNKNOWN"
                 ELSE instr0
    IN
    IF instr \in {"BEQ", "BNE"}
    THEN IF instr = "BEQ" /\ reg_names[rs] = <<"R", 10>> /\ reg_names[rt] = <<"R", 8>>
         THEN Returned(instr, <<reg_names[rs], reg_names[rt], <<"#", 4>>>>)
         ELSE Returned(instr, <<reg_names[rs], reg_names[rt], <<"#", imm>>>>)
    ELSE IF instr \in {"BGEZ", "BGTZ", "BLEZ", "BLTZ"}
    THEN Returned(instr, <<reg_names[rs], <<"#", imm>>>>)
    ELSE IF instr \in {"BGEZAL", "BLTZAL"}
    THEN Returned(instr, <<reg_names[rs], <<"#", imm>>>>)
    ELSE IF instr \in {"ADDI", "ADDIU", "SLTI", "ANDI", "ORI", "XORI"}
    THEN Returned(instr, <<reg_names[rt], reg_names[rs], <<"#", imm>>>>)
    ELSE IF instr = "LUI"
    THEN Returned(instr, <<reg_names[rt], <<"#", imm>>>>)
    ELSE IF instr \in {"LW", "LB", "LH", "LBU", "LHU", "SW", "SB", "SH"}
    THEN Returned(instr, << reg_names[rt], <<"()", imm, reg_names[rs]>> >>)
    ELSE Returned(instr, <<reg_names[rt], reg_names[rs], <<"#", imm>>>>)

parse_j_type(bin_str) ==
  IF ValueError(Slice(bin_str, 0, 6)) \/ ValueError(Slice(bin_str, 6, 32))
  THEN Raised
  ELSE
    LET opcode == int2(Slice(bin_str, 0, 6))
        addr == int2(Slice(bin_str, 6, 32)) * 4
        instr == IF opcode \in DOMAIN j_type_ops THEN j_type_ops[opcode]
                 ELSE "UNKNOWN"
    IN Returned(instr, << <<"#", addr>> >>)

decode_instruction_unknownRaises(bin_str) ==
  IF ValueError(Slice(bin_str, 0, 6)) THEN Raised
  ELSE LET opcode == int2(Slice(bin_str, 0, 6))
           d == IF opcode = 0 THEN parse_r_type(bin_str)
                ELSE IF opcode \in DOMAIN j_type_ops THEN parse_j_type(bin_str)
                ELSE parse_i_type(bin_str)
       IN  IF d.instr = "UNKNOWN" THEN Raised ELSE d

decode_instruction(bin_str) ==
  IF ValueError(Slice(bin_str, 0, 6)) THEN Raised
  ELSE LET opcode == int2(Slice(bin_str, 0, 6))
       IN  IF opcode = 0 THEN parse_r_type(bin_str)
           ELSE IF opcode \in DOMAIN j_type_ops THEN parse_j_type(bin_str)
           ELSE parse_i_type(bin_str)

\* ------------------------------------------------------------- input files
RECURSIVE Bits(_, _)
\* The w-character binary numeral of n, most significant bit first.
Bits(n, w) ==
  IF w = 0 THEN <<>>
  ELSE Append(Bits(n \div 2, w - 1), IF n % 2 = 1 THEN "1" ELSE "0")

\* A 32-character line laid out in the six fields format_binary names.
Word(op, rs, rt, rd, shamt, funct) ==
  Bits(op, 6) \o Bits(rs, 5) \o Bits(rt, 5) \o Bits(rd, 5) \o Bits(shamt, 5)
  \o Bits(funct, 6)

BreakWord == Word(0, 0, 0, 0, 0, 13)
NopWord == Word(0, 0, 0, 0, 0, 0)
AddiWord == Word(8, 8, 9, 31, 31, 63)      \* ADDI R9, R8, #-1
FillerWord == Word(0, 2, 3, 1, 0, 32)      \* ADD R1, R2, R3
LongLine == Append(NopWord, "1")           \* 33 characters
ShortLine == SubSeq(AddiWord, 1, 31)       \* 31 characters
XLine == <<"x">> \o Tail(BreakWord)        \* a character that is no bit
BlankLine == <<" ">>                       \* whitespace only
UnknownWord == Word(0, 2, 3, 1, 0, 1)      \* opcode 0, funct 1: no table entry

StreamLines ==
  {BreakWord, NopWord, AddiWord, UnknownWord, LongLine, ShortLine, XLine,
   BlankLine}

Pad(p) == [i \in 1..p |-> FillerWord]

\* The files of the stream specification: up to MaxLen free lines, or MaxPad
\* ordinary instructions (which carry the addresses up to data_section_addr)
\* and then up to MaxPadLen free lines.
InputFiles ==
  UNION {[1..n -> StreamLines] : n \in 0..MaxLen}
  \cup {Pad(MaxPad) \o t : t \in UNION {[1..n -> StreamLines] : n \in 0..MaxPadLen}}

\* The files of the decoding specification: one well-formed word each.
WordI(op, rs, rt, imm16) == Bits(op, 6) \o Bits(rs, 5) \o Bits(rt, 5) \o Bits(imm16, 16)

RegSample == {0, 1, 31}
ShamtSample == {0, 1, 31}
RsSample == {0, 8, 10, 31}
ImmSample == {0, 1, 4, 5, 32767, 32768, 65535}

DecodeWords ==
  {Word(0, rs, rt, rd, shamt, funct) :
     rs \in RegSample, rt \in RegSample, rd \in RegSample,
     shamt \in ShamtSample, funct \in 0..63}
  \cup {WordI(op, rs, rt, imm16) :
     op \in 1..63, rs \in RsSample, rt \in 0..31, imm16 \in ImmSample}

WellFormed(line) == Len(line) = 32 /\ \A i \in 1..32 : line[i] \in {"0", "1"}

\* ------------------------------------------------------------------- state
VARIABLES
  raw_lines,        \* the lines of the input file
  out_file,         \* the lines of the output file
  curr_addr,        \* self.curr_addr
  pc,               \* "idle", "loop", "done" or "error" (an uncaught exception)
  runs,             \* calls of disassemble() made on this object
  binary_lines,     \* local of disassemble
  idx,              \* position of the for loop in binary_lines
  hit_break,        \* local of disassemble
  in_data_section,  \* local of disassemble
  output_lines      \* local of disassemble

vars == <<raw_lines, out_file, curr_addr, pc, runs, binary_lines, idx,
          hit_break, in_data_section, output_lines>>

\* __init__, for one input file
Constructed(file) ==
  /\ raw_lines = file
  /\ out_file = <<>>
  /\ curr_addr = start_addr
  /\ pc = "idle"
  /\ runs = 0
  /\ binary_lines = <<>>
  /\ idx = 1
  /\ hit_break = FALSE
  /\ in_data_section = FALSE
  /\ output_lines = <<>>

Init == \E file \in InputFiles : Constructed(file)

\* line 284-285
reached_data_section(hb, addr, ids) ==
  IF hb /\ addr >= data_section_addr /\ ~ids THEN TRUE ELSE ids

use_data_branch_sectionOnly(hb, ids) == ids

\* line 291
use_data_branch(hb, ids) == hb \/ ids

\* line 295
data_line(bin_str, addr) ==
  [kind |-> "data", bin |-> bin_str, addr |-> addr, value |-> decimal_val(bin_str)]

\* lines 305-308
instr_line(bin_str, addr, d) ==
  [kind |-> "instr", bin |-> format_binary(bin_str), addr |-> addr,
   instr |-> d.instr, operands |-> d.operands]

\* disassemble() is entered: lines 268-275
Disassemble ==
  /\ pc \in {"idle", "done"}
  /\ runs < MaxRuns
  /\ runs' = runs + 1
  /\ binary_lines' = load_binary(raw_lines)
  /\ output_lines' = <<>>
  /\ hit_break' = FALSE
  /\ in_data_section' = FALSE
  /\ idx' = 1
  /\ pc' = "loop"
  /\ UNCHANGED <<raw_lines, out_file, curr_addr>>

\* one pass of the loop body through the data branch: lines 284-295, 311
StepData ==
  /\ pc = "loop"
  /\ idx <= Len(binary_lines)
  /\ LET bin_str == binary_lines[idx]
         ids == reached_data_section(hit_break, curr_addr, in_data_section)
     IN  /\ use_data_branch(hit_break, ids)
         /\ ~ValueError(bin_str)
         /\ in_data_section' = ids
         /\ output_lines' = Append(output_lines, data_line(bin_str, curr_addr))
  /\ curr_addr' = curr_addr + 4
  /\ idx' = idx + 1
  /\ UNCHANGED <<raw_lines, out_file, pc, runs, binary_lines, hit_break>>

\* one pass of the loop body through the code branch: lines 284-311
StepCode ==
  /\ pc = "loop"
  /\ idx <= Len(binary_lines)
  /\ LET bin_str == binary_lines[idx]
         ids == reached_data_section(hit_break, curr_addr, in_data_section)
         d == decode_instruction(bin_str)
     IN  /\ ~use_data_branch(hit_break, ids)
         /\ ~d.err
         /\ in_data_section' = ids
         /\ hit_break' = IF d.instr = "BREAK" THEN TRUE ELSE hit_break
         /\ output_lines' = Append(output_lines, instr_line(bin_str, curr_addr, d))
  /\ curr_addr' = curr_addr + 4
  /\ idx' = idx + 1
  /\ UNCHANGED <<raw_lines, out_file, pc, runs, binary_lines>>

\* int(..., 2) raises ValueError in either branch; nothing catches it in
\* disassemble, run or main.
StepRaise ==
  /\ pc = "loop"
  /\ idx <= Len(binary_lines)
  /\ LET bin_str == binary_lines[idx]
         ids == reached_data_section(hit_break, curr_addr, in_data_section)
     IN  /\ IF use_data_branch(hit_break, ids) THEN ValueError(bin_str)
            ELSE decode_instruction(bin_str).err
         /\ in_data_section' = ids
  /\ pc' = "error"
  /\ UNCHANGED <<raw_lines, out_file, curr_addr, runs, binary_lines, idx,
                 hit_break, output_lines>>

\* lines 314-325: the file is opened for writing (and so emptied), then
\* output_lines[0] raises IndexError when nothing was emitted.
WriteOutput ==
  /\ pc = "loop"
  /\ idx > Len(binary_lines)
  /\ out_file' = output_lines
  /\ pc' = IF Len(output_lines) = 0 THEN "error" ELSE "done"
  /\ UNCHANGED <<raw_lines, curr_addr, runs, binary_lines, idx, hit_break,
                 in_data_section, output_lines>>

Next == Disassemble \/ StepData \/ StepCode \/ StepRaise \/ WriteOutput

Spec == Init /\ [][Next]_vars

\* The decoding specification: disassemble() on a file of one well-formed word.
InitDecode == \E w \in DecodeWords : Constructed(<<w>>)

NextDecode == Disassemble \/ StepCode \/ WriteOutput

SpecDecode == InitDecode /\ [][NextDecode]_vars

\* ------------------------------------------------------------------ claims
IsBreakLine(l) == l.kind = "instr" /\ l.instr = "BREAK"

\* C1: once a word has been decoded to BREAK, every later word of the stream
\* is emitted as a data line holding the word and its unsigned value, whatever
\* its bits, and the section state (hit_break or in_data_section) stays Data:
\* no line after a data line is an instruction line.
C1_DataAfterBreak ==
  /\ \A k \in 1..Len(output_lines) :
       IsBreakLine(output_lines[k]) =>
         /\ hit_break \/ in_data_section
         /\ \A j \in (k + 1)..Len(output_lines) :
              /\ output_lines[j].kind = "data"
              /\ output_lines[j].bin = binary_lines[j]
              /\ output_lines[j].value = decimal_val(binary_lines[j])
  /\ \A k \in 1..Len(output_lines) :
       output_lines[k].kind = "data" =>
         /\ hit_break \/ in_data_section
         /\ \A j \in (k + 1)..Len(output_lines) : output_lines[j].kind = "data"

\* A BREAK, then a second BREAK and the all-zero word, both emitted as data.
C1_Witness ==
  /\ Len(output_lines) = 3
  /\ IsBreakLine(output_lines[1])
  /\ binary_lines[2] = BreakWord /\ output_lines[2].kind = "data"
  /\ binary_lines[3] = NopWord /\ output_lines[3].kind = "data"
  /\ output_lines[2].value = <<13>> /\ output_lines[3].value = <<0>>

\* C2: a line is a data line exactly when a BREAK was decoded before it or
\* its address has reached data_section_addr; so without a BREAK every word at
\* address >= data_section_addr is a data line.
C2_TransitionOnEither ==
  (\A i \in 1..Len(binary_lines) : WellFormed(binary_lines[i])) =>
  \A k \in 1..Len(output_lines) :
    output_lines[k].kind = "data" <=>
      \/ \E j \in 1..(k - 1) : IsBreakLine(output_lines[j])
      \/ output_lines[k].addr >= data_section_addr

FirstBreak(k) ==
  /\ decode_instruction(binary_lines[k]).instr = "BREAK"
  /\ \A j \in 1..(k - 1) : decode_instruction(binary_lines[j]).instr # "BREAK"

\* C3: the first word that decodes to BREAK is emitted as the instruction
\* line BREAK without operands, and every word before it is emitted as an
\* instruction line.
C3_BreakIsInstruction ==
  \A k \in 1..Len(output_lines) :
    FirstBreak(k) =>
      /\ output_lines[k].kind = "instr"
      /\ output_lines[k].instr = "BREAK"
      /\ output_lines[k].operands = <<>>
      /\ output_lines[k].bin = format_binary(binary_lines[k])
      /\ \A j \in 1..(k - 1) : output_lines[j].kind = "instr"

\* An instruction, then the first BREAK, then a word emitted as data.
C3_Witness ==
  /\ Len(output_lines) = 3
  /\ FirstBreak(2)
  /\ output_lines[1].kind = "instr" /\ output_lines[1].instr = "ADDI"
  /\ IsBreakLine(output_lines[2])
  /\ output_lines[3].kind = "data"

\* C4: the n-th emitted line (counted from 0) carries the address
\* start_addr + 4 * n, one line for each non-blank line of the file.
C4_AddressOfNthLine ==
  (\A i \in 1..Len(binary_lines) : WellFormed(binary_lines[i])) =>
  \A n \in 1..Len(output_lines) :
    /\ output_lines[n].addr = start_addr + 4 * (n - 1)
    /\ output_lines[n].bin \in {binary_lines[n], format_binary(binary_lines[n])}

IsPrefix(s, t) == Len(s) <= Len(t) /\ \A i \in 1..Len(s) : s[i] = t[i]

\* C5: a second call of disassemble() on the same object and the same file
\* starts at start_addr in the code section and emits the lines the first
\* call wrote to the output file.
C5_SecondRunSame ==
  (/\ \A i \in 1..Len(binary_lines) : WellFormed(binary_lines[i])
   /\ runs >= 2 /\ pc = "loop") =>
    /\ idx = 1 => (curr_addr = start_addr /\ ~hit_break /\ ~in_data_section)
    /\ IsPrefix(output_lines, out_file)
    /\ idx > Len(binary_lines) => output_lines = out_file

\* C6: a file with a non-blank line that is not 32 characters of "0" and "1"
\* is rejected: the run does not complete, nothing is written, and no line is
\* emitted for the malformed line.
C6_MalformedRejected ==
  (\E i \in 1..Len(load_binary(raw_lines)) : ~WellFormed(load_binary(raw_lines)[i])) =>
    /\ pc # "done"
    /\ out_file = <<>>
    /\ \A k \in 1..Len(output_lines) : WellFormed(binary_lines[k])

\* The fields of a well-formed word, read as the instruction set defines them.
Field(w, a, b) == int2(Slice(w, a, b))
SignExtend16(raw) == IF raw >= 32768 THEN raw - 65536 ELSE raw
NoTableEntry(w) ==
  \/ Field(w, 0, 6) = 0 /\ Field(w, 26, 32) \notin DOMAIN r_type_funcs
  \/ Field(w, 0, 6) = 1 /\ Field(w, 11, 16) \notin DOMAIN regimm_types
  \/ Field(w, 0, 6) \notin {0, 1} \cup DOMAIN j_type_ops \cup DOMAIN i_type_ops

\* C7 as stated: a word whose selecting code has no table entry decodes to
\* the sentinel mnemonic with an empty operand list.
C7_UnknownNoOperands ==
  \A k \in 1..Len(output_lines) :
    (WellFormed(binary_lines[k]) /\ NoTableEntry(binary_lines[k])) =>
      /\ output_lines[k].kind = "instr"
      /\ output_lines[k].instr = "UNKNOWN"
      /\ output_lines[k].operands = <<>>

\* C7 as amended: such a word decodes to the sentinel mnemonic UNKNOWN, and
\* its operand list is rd, rs, rt for opcode 0 and rt, rs, #imm (the
\* sign-extended low 16 bits) for every other opcode.
C7_UnknownWithOperands ==
  \A k \in 1..Len(output_lines) :
    LET w == binary_lines[k] IN
    (WellFormed(w) /\ NoTableEntry(w)) =>
      /\ output_lines[k].kind = "instr"
      /\ output_lines[k].instr = "UNKNOWN"
      /\ output_lines[k].operands =
           IF Field(w, 0, 6) = 0
           THEN << <<"R", Field(w, 16, 21)>>, <<"R", Field(w, 6, 11)>>,
                   <<"R", Field(w, 11, 16)>> >>
           ELSE << <<"R", Field(w, 11, 16)>>, <<"R", Field(w, 6, 11)>>,
                   <<"#", SignExtend16(Field(w, 16, 32))>> >>

\* An opcode 1 word whose rt is none of the four REGIMM codes was decoded.
C7_Witness ==
  /\ Len(output_lines) = 1
  /\ Field(binary_lines[1], 0, 6) = 1
  /\ Field(binary_lines[1], 11, 16) = 2
  /\ output_lines[1].instr = "UNKNOWN"

\* C8: every BEQ or BNE word shows the operands R<rs>, R<rt>, #<imm>, imm
\* being the sign-extended 16-bit immediate of that word, for every rs, rt.
C8_BranchImmediateUniform ==
  \A k \in 1..Len(output_lines) :
    LET w == binary_lines[k] IN
    (WellFormed(w) /\ output_lines[k].kind = "instr" /\ Field(w, 0, 6) \in {4, 5}) =>
      output_lines[k].operands =
        << <<"R", Field(w, 6, 11)>>, <<"R", Field(w, 11, 16)>>,
           <<"#", SignExtend16(Field(w, 16, 32))>> >>

\* The immediate an operand list shows: in "#imm" and in "imm(Rs)", always
\* the last operand.
DisplayedImmediate(operands) == operands[Len(operands)][2]

\* C9: every I-type word shows the two's-complement reading of its low 16
\* bits, a value in -32768..32767.
C9_SignExtendedImmediate ==
  \A k \in 1..Len(output_lines) :
    LET w == binary_lines[k] IN
    (/\ WellFormed(w) /\ output_lines[k].kind = "instr"
     /\ Field(w, 0, 6) \notin {0} \cup DOMAIN j_type_ops) =>
      /\ DisplayedImmediate(output_lines[k].operands) = SignExtend16(Field(w, 16, 32))
      /\ DisplayedImmediate(output_lines[k].operands) \in -32768..32767

\* C10: among the words with opcode 0 and funct 0, the all-zero word decodes
\* to NOP without operands and every other one to SLL rd, rt, #shamt.
C10_NopOnlyAllZero ==
  \A k \in 1..Len(output_lines) :
    LET w == binary_lines[k] IN
    (/\ WellFormed(w) /\ output_lines[k].kind = "instr"
     /\ Field(w, 0, 6) = 0 /\ Field(w, 26, 32) = 0) =>
      IF w = NopWord
      THEN output_lines[k].instr = "NOP" /\ output_lines[k].operands = <<>>
      ELSE /\ output_lines[k].instr = "SLL"
           /\ output_lines[k].operands =
                << <<"R", Field(w, 16, 21)>>, <<"R", Field(w, 11, 16)>>,
                   <<"#", Field(w, 21, 26)>> >>

\* A word with opcode 0, funct 0 and only rs set was decoded, to SLL.
C10_Witness ==
  /\ Len(output_lines) = 1
  /\ binary_lines[1] = Word(0, 31, 0, 0, 0, 0)
  /\ output_lines[1].instr = "SLL"
  /\ output_lines[1].operands = << <<"R", 0>>, <<"R", 0>>, <<"#", 0>> >>

\* The non-blank lines of the input file, counted on the file itself.
NonBlankCount ==
  Cardinality({i \in 1..Len(raw_lines) :
                 \E j \in 1..Len(raw_lines[i]) : raw_lines[i][j] # " "})

\* C11: on a file of well-formed words no word aborts the run, an
\* unrecognized one included: the loop emits one address-tagged line for
\* each word, in input order, it goes on after a line UNKNOWN, and a run that
\* has a word to emit completes with as many lines as the file has
\* non-blank lines.  (Only the file without any word ends in an exception,
\* the IndexError of writing an empty output.)
C11_UnknownNeverAborts ==
  (\A i \in 1..Len(raw_lines) :
     strip(raw_lines[i]) = <<>> \/ WellFormed(strip(raw_lines[i]))) =>
    /\ pc = "error" => NonBlankCount = 0
    /\ pc \in {"loop", "done"} =>
         /\ Len(binary_lines) = NonBlankCount
         /\ Len(output_lines) = idx - 1
         /\ \A k \in 1..Len(output_lines) :
              /\ output_lines[k].addr = output_lines[1].addr + 4 * (k - 1)
              /\ IF output_lines[k].kind = "data"
                 THEN output_lines[k].bin = binary_lines[k]
                 ELSE /\ output_lines[k].bin = format_binary(binary_lines[k])
                      /\ output_lines[k].instr = decode_instruction(binary_lines[k]).instr
    /\ (pc = "loop" /\ idx <= Len(binary_lines)) =>
         ~(IF use_data_branch(hit_break,
                reached_data_section(hit_break, curr_addr, in_data_section))
           THEN ValueError(binary_lines[idx])
           ELSE decode_instruction(binary_lines[idx]).err)
    /\ pc = "done" => /\ Len(out_file) = NonBlankCount
                      /\ out_file = output_lines

\* A run completed on a file whose first word is unrecognized: the line
\* UNKNOWN is followed by the lines of the two words after it.
C11_Witness ==
  /\ pc = "done"
  /\ Len(out_file) = 3
  /\ binary_lines[1] = UnknownWord
  /\ out_file[1].kind = "instr" /\ out_file[1].instr = "UNKNOWN"
  /\ binary_lines[3] = UnknownWord
  /\ out_file[3].kind = "instr" /\ out_file[3].instr = "UNKNOWN"

====
